---- MODULE Spec2Model ----
(***************************************************************************)
(* Model of src/src/components/Video/Video.js: the derivation of the video *)
(* element's sources and tag attributes (getVideoTagProps and the helpers  *)
(* it calls) and the component's lifecycle hooks around the video.js       *)
(* player.                                                                 *)
(*                                                                         *)
(* JavaScript objects are functions from a finite set of keys to strings;  *)
(* a key that is absent from the function is `undefined` in the object.    *)
(* A thrown exception is the "error" field of an operator's result.        *)
(***************************************************************************)
EXTENDS Integers, Sequences, FiniteSets, TLC

VARIABLES
  mergedProps,     \* what this.getMergedProps() returns for the current props
  result,          \* outcome of the last getVideoTagProps() call
  phase,           \* position of the component in its lifecycle
  player,          \* this.player
  playerSources,   \* the `sources` option videojs() was called with
  element,         \* this.element.current
  videoNode,       \* this.videoNode
  videojsCalls,    \* number of videojs(...) instantiations
  disposeCalls,    \* number of player.dispose() calls
  loadCalls,       \* number of element.load() calls
  didUpdateCalls,  \* number of componentDidUpdate() calls
  propsAtMount     \* the merged props componentDidMount() ran with

vars == <<mergedProps, result, phase, player, playerSources, element, videoNode,
          videojsCalls, disposeCalls, loadCalls, didUpdateCalls, propsAtMount>>

lifecycleVars == <<player, playerSources, element, videoNode, videojsCalls,
                   disposeCalls, loadCalls, didUpdateCalls, propsAtMount>>

(***************************************************************************)
(* Bounds of the model.                                                    *)
(***************************************************************************)
MaxTypes == 2      \* longest sourceTypes list
MaxUpdates == 2    \* most props changes of one mounted component

(***************************************************************************)
(* Plain values.                                                           *)
(***************************************************************************)
EmptyObject == [k \in {} |-> ""]

\* {...a, ...b}: the keys of both, b's value where both define one.
Spread(a, b) ==
  [k \in DOMAIN a \cup DOMAIN b |-> IF k \in DOMAIN b THEN b[k] ELSE a[k]]

SeqsUpTo(S, n) == UNION {[1..k -> S] : k \in 0..n}

ObjectsOver(keys, value) == {[k \in ks |-> value[k]] : ks \in SUBSET keys}

Min(S) == CHOOSE m \in S : \A n \in S : m <= n

\* Format tokens; "xyz" is a token no media type is known for.
Tokens == {"mp4", "ogv", "xyz"}

\* Keys of url options, and the values the two caller-supplied layers give them.
OptionKeys == {"format", "quality", "resource_type"}
OverrideValue == [format |-> "flv", quality |-> "auto", resource_type |-> "image"]
ElementValue == [format |-> "gif", quality |-> "80", resource_type |-> "raw"]

\* The sourceTransformation prop: absent, null, or an object keyed by format
\* token whose entries are option objects or a falsy value.
OverrideEntries ==
  {[falsy |-> TRUE, options |-> EmptyObject]}
    \cup {[falsy |-> FALSE, options |-> o] : o \in ObjectsOver(OptionKeys, OverrideValue)}

SourceTransformationValues ==
  {[kind |-> "undefined", entries |-> EmptyObject],
   [kind |-> "null", entries |-> EmptyObject],
   [kind |-> "object", entries |-> EmptyObject]}
    \cup {[kind |-> "object", entries |-> [k \in {t} |-> e]] :
            t \in {"mp4", "ogv"}, e \in OverrideEntries}

\* The sourceTypes prop: a list of tokens, or one scalar token.
SourceTypesValues ==
  {[isArray |-> TRUE, list |-> s, token |-> ""] : s \in SeqsUpTo(Tokens, MaxTypes)}
    \cup {[isArray |-> FALSE, list |-> <<>>, token |-> t] : t \in Tokens}

\* Attributes cld.videoTag(...).attributes() computes (provider dialect), and
\* the props extractCloudinaryProps() classifies as nonCloudinaryProps.
ProviderAttributeValue == [poster |-> "cld-poster", cross_origin |-> "cld-anonymous"]
PassThroughValue == [src |-> "user-src", crossOrigin |-> "user-credentials"]

(***************************************************************************)
(* cloudinary-core, as far as Video.js uses it.                            *)
(***************************************************************************)
\* Util.defaults(dest, source): assigns source's properties to dest; a
\* property dest already defines is not overwritten.
defaults(dest, source) ==
  [k \in DOMAIN dest \cup DOMAIN source |->
     IF k \in DOMAIN dest THEN dest[k] ELSE source[k]]

\* Util.withCamelCaseKeys on one key.
camelCaseKey(k) == IF k = "cross_origin" THEN "crossOrigin" ELSE k

\* Util.withCamelCaseKeys(obj); no two keys of obj convert to the same key.
withCamelCaseKeys(obj) ==
  [c \in {camelCaseKey(k) : k \in DOMAIN obj} |->
     obj[CHOOSE k \in DOMAIN obj : camelCaseKey(k) = c]]

\* cld.url(publicId, options): the url names the asset and every option.
UrlPart(options, k) ==
  IF k \in DOMAIN options THEN k \o "=" \o options[k] \o ";" ELSE ""

cldUrl(publicId, options) ==
  "cdn://" \o publicId \o "?"
    \o UrlPart(options, "format")
    \o UrlPart(options, "quality")
    \o UrlPart(options, "resource_type")

(***************************************************************************)
(* Video.js                                                                *)
(***************************************************************************)
mimeType == "video"

\* sourceTransformations[sourceType] || {}
sourceTransformationOf(sourceTransformations, sourceType) ==
  IF sourceType \in DOMAIN sourceTransformations.entries
       /\ ~sourceTransformations.entries[sourceType].falsy
  THEN sourceTransformations.entries[sourceType].options
  ELSE EmptyObject

\* Mutant of urlOptionsOf: the two forced fields are written first and win.
urlOptionsOf_ForcedFirst(sourceTransformation, childTransformations, sourceType) ==
  defaults(
    defaults(
      defaults(EmptyObject, [resource_type |-> "video", format |-> sourceType]),
      sourceTransformation),
    childTransformations)

\* Mutant of urlOptionsOf: the element-level transformation is layered before
\* the per-format one and wins over it.
urlOptionsOf_ElementFirst(sourceTransformation, childTransformations, sourceType) ==
  defaults(
    defaults(
      defaults(EmptyObject, childTransformations),
      sourceTransformation),
    [resource_type |-> "video", format |-> sourceType])

\* Util.defaults({}, sourceTransformation, childTransformations, {...})
urlOptionsOf(sourceTransformation, childTransformations, sourceType) ==
  defaults(
    defaults(
      defaults(EmptyObject, sourceTransformation),
      childTransformations),
    [resource_type |-> "video", format |-> sourceType])

\* generateVideoUrl: reading a property of a null sourceTransformations
\* throws a TypeError before cld.url is reached; cld.url may throw.
generateVideoUrl(cld, publicId, childTransformations, sourceTransformations, sourceType) ==
  IF sourceTransformations.kind = "null"
  THEN [error |-> "TypeError", url |-> "", reachedUrl |-> FALSE,
        call |-> [publicId |-> publicId, sourceType |-> sourceType,
                  options |-> EmptyObject]]
  ELSE LET urlOptions ==
             urlOptionsOf(
               sourceTransformationOf(sourceTransformations, sourceType),
               childTransformations, sourceType)
           call == [publicId |-> publicId, sourceType |-> sourceType,
                    options |-> urlOptions]
       IN IF cld.urlFails
          THEN [error |-> "CdnError", url |-> "", reachedUrl |-> TRUE, call |-> call]
          ELSE [error |-> "none", url |-> cldUrl(publicId, urlOptions),
                reachedUrl |-> TRUE, call |-> call]

\* Mutant of sourceMimeType: "ogv" is not remapped.
sourceMimeType_NoRemap(sourceType) == mimeType \o "/" \o sourceType

\* `${this.mimeType}/${sourceType === 'ogv' ? 'ogg' : sourceType}`
sourceMimeType(sourceType) ==
  mimeType \o "/" \o (IF sourceType = "ogv" THEN "ogg" ELSE sourceType)

\* Mutant of generateSources: a token seen earlier in the list is skipped.
generateSources_Dedup(cld, publicId, childTransformations, sourceTransformations, sourceTypes) ==
  LET first == {i \in 1..Len(sourceTypes) :
                  \A j \in 1..(i - 1) : sourceTypes[j] # sourceTypes[i]}
      rank(i) == Cardinality({j \in first : j <= i})
      kept == [n \in 1..Cardinality(first) |->
                 sourceTypes[CHOOSE i \in first : rank(i) = n]]
      r(i) == generateVideoUrl(cld, publicId, childTransformations,
                               sourceTransformations, kept[i])
      failing == {i \in 1..Len(kept) : r(i).error # "none"}
      invoked == IF failing = {} THEN Len(kept) ELSE Min(failing)
      reached == SelectSeq([i \in 1..invoked |-> r(i)], LAMBDA x : x.reachedUrl)
  IN [error |-> IF failing = {} THEN "none" ELSE r(Min(failing)).error,
      sources |-> IF failing = {}
                  THEN [i \in 1..Len(kept) |->
                          [key |-> sourceMimeType(kept[i]),
                           src |-> r(i).url,
                           type |-> sourceMimeType(kept[i])]]
                  ELSE <<>>,
      invocations |-> invoked,
      urlCalls |-> [i \in 1..Len(reached) |-> reached[i].call]]

\* generateSources: sourceTypes.map(...); the first throwing element ends it.
generateSources(cld, publicId, childTransformations, sourceTransformations, sourceTypes) ==
  LET r(i) == generateVideoUrl(cld, publicId, childTransformations,
                               sourceTransformations, sourceTypes[i])
      failing == {i \in 1..Len(sourceTypes) : r(i).error # "none"}
      invoked == IF failing = {} THEN Len(sourceTypes) ELSE Min(failing)
      reached == SelectSeq([i \in 1..invoked |-> r(i)], LAMBDA x : x.reachedUrl)
  IN [error |-> IF failing = {} THEN "none" ELSE r(Min(failing)).error,
      sources |-> IF failing = {}
                  THEN [i \in 1..Len(sourceTypes) |->
                          [key |-> sourceMimeType(sourceTypes[i]),
                           src |-> r(i).url,
                           type |-> sourceMimeType(sourceTypes[i])]]
                  ELSE <<>>,
      invocations |-> invoked,
      urlCalls |-> [i \in 1..Len(reached) |-> reached[i].call]]

\* Mutant of mergeTagAttributes: the computed attributes are spread last.
mergeTagAttributes_ProviderWins(videoTagAttributes, nonCloudinaryProps) ==
  Spread(nonCloudinaryProps, withCamelCaseKeys(videoTagAttributes))

\* { ...Util.withCamelCaseKeys(tagAttributes), ...nonCloudinaryProps }
mergeTagAttributes(videoTagAttributes, nonCloudinaryProps) ==
  Spread(withCamelCaseKeys(videoTagAttributes), nonCloudinaryProps)

NoResult ==
  [error |-> "pending", sourcesNull |-> TRUE, sources |-> <<>>,
   tagAttributes |-> EmptyObject, invocations |-> 0, urlCalls |-> <<>>]

Thrown(error, invocations, urlCalls) ==
  [error |-> error, sourcesNull |-> TRUE, sources |-> <<>>,
   tagAttributes |-> EmptyObject, invocations |-> invocations,
   urlCalls |-> urlCalls]

\* Mutant of selectSources: the scalar branch also emits a one-element
\* sources list.
selectSources_ScalarAlsoSources(cld, props, sourceTransformation, tagAttributes) ==
  IF props.sourceTypes.isArray
  THEN LET g == generateSources(cld, props.publicId, props.childTransformations,
                                sourceTransformation, props.sourceTypes.list)
       IN IF g.error # "none"
          THEN Thrown(g.error, g.invocations, g.urlCalls)
          ELSE [error |-> "none", sourcesNull |-> FALSE, sources |-> g.sources,
                tagAttributes |-> tagAttributes,
                invocations |-> g.invocations, urlCalls |-> g.urlCalls]
  ELSE LET g == generateSources(cld, props.publicId, props.childTransformations,
                                sourceTransformation, <<props.sourceTypes.token>>)
       IN IF g.error # "none"
          THEN Thrown(g.error, g.invocations, g.urlCalls)
          ELSE [error |-> "none", sourcesNull |-> FALSE, sources |-> g.sources,
                tagAttributes |-> Spread(tagAttributes, [src |-> g.sources[1].src]),
                invocations |-> g.invocations, urlCalls |-> g.urlCalls]

\* Mutant of selectSources: the list branch also sets `src`, to the url of the
\* first source.
selectSources_ListAlsoSrc(cld, props, sourceTransformation, tagAttributes) ==
  IF props.sourceTypes.isArray
  THEN LET g == generateSources(cld, props.publicId, props.childTransformations,
                                sourceTransformation, props.sourceTypes.list)
       IN IF g.error # "none"
          THEN Thrown(g.error, g.invocations, g.urlCalls)
          ELSE [error |-> "none", sourcesNull |-> FALSE, sources |-> g.sources,
                tagAttributes |->
                  IF g.sources = <<>> THEN tagAttributes
                  ELSE Spread(tagAttributes, [src |-> g.sources[1].src]),
                invocations |-> g.invocations, urlCalls |-> g.urlCalls]
  ELSE LET u == generateVideoUrl(cld, props.publicId, props.childTransformations,
                                 sourceTransformation, props.sourceTypes.token)
           calls == IF u.reachedUrl THEN <<u.call>> ELSE <<>>
       IN IF u.error # "none"
          THEN Thrown(u.error, 1, calls)
          ELSE [error |-> "none", sourcesNull |-> TRUE, sources |-> <<>>,
                tagAttributes |-> Spread(tagAttributes, [src |-> u.url]),
                invocations |-> 1, urlCalls |-> calls]

\* The branch on Util.isArray(sourceTypes), given the merged tag attributes.
selectSources(cld, props, sourceTransformation, tagAttributes) ==
  IF props.sourceTypes.isArray
  THEN LET g == generateSources(cld, props.publicId, props.childTransformations,
                                sourceTransformation, props.sourceTypes.list)
       IN IF g.error # "none"
          THEN Thrown(g.error, g.invocations, g.urlCalls)
          ELSE [error |-> "none", sourcesNull |-> FALSE, sources |-> g.sources,
                tagAttributes |-> tagAttributes,
                invocations |-> g.invocations, urlCalls |-> g.urlCalls]
  ELSE LET u == generateVideoUrl(cld, props.publicId, props.childTransformations,
                                 sourceTransformation, props.sourceTypes.token)
           calls == IF u.reachedUrl THEN <<u.call>> ELSE <<>>
       IN IF u.error # "none"
          THEN Thrown(u.error, 1, calls)
          ELSE [error |-> "none", sourcesNull |-> TRUE, sources |-> <<>>,
                tagAttributes |-> Spread(tagAttributes, [src |-> u.url]),
                invocations |-> 1, urlCalls |-> calls]

\* getVideoTagProps, from the merged props on.
getVideoTagProps(props) ==
  LET sourceTransformation ==
        IF props.sourceTransformation.kind = "undefined"
        THEN [kind |-> "object", entries |-> EmptyObject]
        ELSE props.sourceTransformation
      cld == [urlFails |-> props.cdn = "urlFails"]
  IN IF props.cdn = "videoTagFails"
     THEN Thrown("CdnError", 0, <<>>)
     ELSE selectSources(cld, props, sourceTransformation,
                        mergeTagAttributes(props.videoTagAttributes,
                                           props.nonCloudinaryProps))

(***************************************************************************)
(* The derivation alone: every configuration, one getVideoTagProps() call. *)
(***************************************************************************)
Configs ==
  [publicId : {"sample", ""},
   sourceTypes : SourceTypesValues,
   sourceTransformation : SourceTransformationValues,
   childTransformations : ObjectsOver(OptionKeys, ElementValue),
   nonCloudinaryProps : ObjectsOver({"src", "crossOrigin"}, PassThroughValue),
   videoTagAttributes : ObjectsOver({"poster", "cross_origin"}, ProviderAttributeValue),
   cdn : {"ok", "videoTagFails", "urlFails"}]

LifecycleIdle ==
  /\ player = "undefined"
  /\ playerSources = [null |-> TRUE, list |-> <<>>]
  /\ element = "null"
  /\ videoNode = "null"
  /\ videojsCalls = 0
  /\ disposeCalls = 0
  /\ loadCalls = 0
  /\ didUpdateCalls = 0
  /\ propsAtMount = mergedProps

Init ==
  /\ mergedProps \in Configs
  /\ result = NoResult
  /\ phase = "constructed"
  /\ LifecycleIdle

GetVideoTagProps ==
  /\ phase = "constructed"
  /\ result' = getVideoTagProps(mergedProps)
  /\ phase' = "derived"
  /\ UNCHANGED <<mergedProps, lifecycleVars>>

Next == GetVideoTagProps

Spec == Init /\ [][Next]_vars

(***************************************************************************)
(* The component's lifecycle, as React drives it: render, then             *)
(* componentDidMount; on every props change render, then                   *)
(* componentDidUpdate; componentWillUnmount at teardown.  A hook that      *)
(* throws makes React unmount the component.                               *)
(***************************************************************************)
LifecycleConfigs ==
  [publicId : {"sample"},
   sourceTypes :
     {[isArray |-> TRUE, list |-> s, token |-> ""] : s \in SeqsUpTo(Tokens, 1)}
       \cup {[isArray |-> FALSE, list |-> <<>>, token |-> t] : t \in Tokens},
   sourceTransformation :
     {[kind |-> "undefined", entries |-> EmptyObject],
      [kind |-> "null", entries |-> EmptyObject]},
   childTransformations : {EmptyObject},
   nonCloudinaryProps : ObjectsOver({"src"}, PassThroughValue),
   videoTagAttributes : {EmptyObject},
   cdn : {"ok", "urlFails"}]

LifecycleInit ==
  /\ mergedProps \in LifecycleConfigs
  /\ result = NoResult
  /\ phase = "constructed"
  /\ LifecycleIdle

\* The props of the <video> element: a prop written later replaces one written
\* earlier, so of the two `ref` props the second is the element's ref.
videoElementProps(tagAttributes) ==
  Spread(Spread([ref |-> "attachRef"], tagAttributes),
         [ref |-> "videoNodeRef", className |-> "video-js"])

\* CloudinaryComponent's attachRef: this.element.current = node.
attachRef(node) == element' = node /\ UNCHANGED videoNode

\* (node) => (this.videoNode = node)
videoNodeRef(node) == videoNode' = node /\ UNCHANGED element

\* React attaches the rendered element to the element's ref.
CommitRef(elementProps, node) ==
  IF elementProps.ref = "attachRef" THEN attachRef(node) ELSE videoNodeRef(node)

\* render() of the first mount.
Render ==
  /\ phase = "constructed"
  /\ LET r == getVideoTagProps(mergedProps)
     IN /\ result' = r
        /\ IF r.error = "none"
           THEN /\ phase' = "rendered"
                /\ CommitRef(videoElementProps(r.tagAttributes), "video")
           ELSE /\ phase' = "failed"
                /\ UNCHANGED <<element, videoNode>>
  /\ UNCHANGED <<mergedProps, player, playerSources, videojsCalls, disposeCalls,
                 loadCalls, didUpdateCalls, propsAtMount>>

\* componentDidMount(): videojs(...) returns the player or throws.
ComponentDidMount ==
  /\ phase = "rendered"
  /\ LET r == getVideoTagProps(mergedProps)
     IN /\ result' = r
        /\ propsAtMount' = mergedProps
        /\ IF r.error # "none"
           THEN /\ phase' = "errored"
                /\ UNCHANGED <<player, playerSources, videojsCalls>>
           ELSE /\ videojsCalls' = videojsCalls + 1
                /\ \E created \in BOOLEAN :
                     IF created
                     THEN /\ player' = "player"
                          /\ playerSources' = [null |-> r.sourcesNull, list |-> r.sources]
                          /\ phase' = "mounted"
                     ELSE /\ phase' = "errored"
                          /\ UNCHANGED <<player, playerSources>>
  /\ UNCHANGED <<mergedProps, element, videoNode, disposeCalls, loadCalls,
                 didUpdateCalls>>

\* A props change of the mounted component, and the render() it causes.
RenderUpdate ==
  /\ phase = "mounted"
  /\ didUpdateCalls < MaxUpdates
  /\ \E p \in LifecycleConfigs :
       /\ mergedProps' = p
       /\ LET r == getVideoTagProps(p)
          IN /\ result' = r
             /\ IF r.error = "none"
                THEN /\ phase' = "rerendered"
                     /\ CommitRef(videoElementProps(r.tagAttributes), "video")
                ELSE /\ phase' = "errored"
                     /\ UNCHANGED <<element, videoNode>>
  /\ UNCHANGED <<player, playerSources, videojsCalls, disposeCalls, loadCalls,
                 didUpdateCalls, propsAtMount>>

\* reloadVideo()
reloadVideo ==
  loadCalls' = IF element # "null" THEN loadCalls + 1 ELSE loadCalls

\* Mutant of ComponentDidUpdate: the update also instantiates a player.
ComponentDidUpdate_Reinstantiates ==
  /\ phase = "rerendered"
  /\ reloadVideo
  /\ videojsCalls' = videojsCalls + 1
  /\ didUpdateCalls' = didUpdateCalls + 1
  /\ phase' = "mounted"
  /\ UNCHANGED <<mergedProps, result, player, playerSources, element, videoNode,
                 disposeCalls, propsAtMount>>

\* componentDidUpdate()
ComponentDidUpdate ==
  /\ phase = "rerendered"
  /\ reloadVideo
  /\ didUpdateCalls' = didUpdateCalls + 1
  /\ phase' = "mounted"
  /\ UNCHANGED <<mergedProps, result, player, playerSources, element, videoNode,
                 videojsCalls, disposeCalls, propsAtMount>>

\* componentWillUnmount(); React then detaches the element's ref.
ComponentWillUnmount ==
  /\ phase \in {"mounted", "errored"}
  /\ disposeCalls' = IF player # "undefined" THEN disposeCalls + 1 ELSE disposeCalls
  /\ phase' = "unmounted"
  /\ CommitRef(videoElementProps(result.tagAttributes), "null")
  /\ UNCHANGED <<mergedProps, result, player, playerSources, videojsCalls,
                 loadCalls, didUpdateCalls, propsAtMount>>

LifecycleNext ==
  \/ Render
  \/ ComponentDidMount
  \/ RenderUpdate
  \/ ComponentDidUpdate
  \/ ComponentWillUnmount

LifecycleSpec == LifecycleInit /\ [][LifecycleNext]_vars

(***************************************************************************)
(* Properties.  The derivation's are stated of `result`, the outcome of    *)
(* getVideoTagProps() on `mergedProps`; the lifecycle's of the counters.   *)
(***************************************************************************)
Returned == result.error = "none"

\* The option object registered for token t in the sourceTransformation prop.
RegisteredOverride(t) ==
  LET st == mergedProps.sourceTransformation
  IN IF st.kind = "object" /\ t \in DOMAIN st.entries /\ ~st.entries[t].falsy
     THEN st.entries[t].options
     ELSE EmptyObject

NoEntryFor(t) ==
  LET st == mergedProps.sourceTransformation
  IN st.kind # "object" \/ t \notin DOMAIN st.entries

ForcedFields(t) == [resource_type |-> "video", format |-> t]

\* The value of key k after layering: per-format override, else element-level
\* transformation, else the forced field.
LayeredValue(k, t) ==
  IF k \in DOMAIN RegisteredOverride(t) THEN RegisteredOverride(t)[k]
  ELSE IF k \in DOMAIN mergedProps.childTransformations
       THEN mergedProps.childTransformations[k]
       ELSE ForcedFields(t)[k]

ExpectedMimeType(t) == IF t = "ogv" THEN "video/ogg" ELSE "video/" \o t

\* C1 (as claimed): every options object handed to cld.url carries
\* resource_type "video" and format equal to the requested token, whatever
\* the source transformation and the element-level transformation define.
C1_ForcedFieldsAlwaysWin ==
  \A i \in 1..Len(result.urlCalls) :
    LET c == result.urlCalls[i]
    IN /\ c.options["resource_type"] = "video"
       /\ c.options["format"] = c.sourceType

\* C1 (amended): every options object handed to cld.url carries a
\* resource_type and a format; each is the value the source transformation of
\* the token defines, else the value the element-level transformation
\* defines, else the forced value ("video", the requested token).
C1_ForcedFieldsAreDefaults ==
  \A i \in 1..Len(result.urlCalls) :
    LET c == result.urlCalls[i]
    IN /\ {"resource_type", "format"} \subseteq DOMAIN c.options
       /\ c.options["resource_type"] = LayeredValue("resource_type", c.sourceType)
       /\ c.options["format"] = LayeredValue("format", c.sourceType)

\* C1 witness: cld.url was handed a format taken from the source transformation
\* registered for the token, not the token.
C1_Witness ==
  \E i \in 1..Len(result.urlCalls) :
    LET c == result.urlCalls[i]
    IN /\ "format" \in DOMAIN RegisteredOverride(c.sourceType)
       /\ c.options["format"] = "flv"
       /\ c.options["format"] # c.sourceType

\* C2 (as claimed): on a key both the registered source transformation and
\* the element-level transformation define, cld.url gets the element-level
\* value; with no entry for the token the override layer contributes no key.
C2_ElementLevelWins ==
  \A i \in 1..Len(result.urlCalls) :
    LET c == result.urlCalls[i]
        child == mergedProps.childTransformations
    IN /\ \A k \in DOMAIN RegisteredOverride(c.sourceType) \cap DOMAIN child :
            c.options[k] = child[k]
       /\ NoEntryFor(c.sourceType) =>
            c.options = Spread(ForcedFields(c.sourceType), child)

\* C2 (amended): on a key both define, cld.url gets the value of the source
\* transformation registered for the token (the highest layer); with no entry
\* for the token the options are the element-level transformation over the
\* forced fields, and nothing else.
C2_OverrideWins ==
  \A i \in 1..Len(result.urlCalls) :
    LET c == result.urlCalls[i]
        child == mergedProps.childTransformations
    IN /\ \A k \in DOMAIN RegisteredOverride(c.sourceType) \cap DOMAIN child :
            c.options[k] = RegisteredOverride(c.sourceType)[k]
       /\ NoEntryFor(c.sourceType) =>
            c.options = Spread(ForcedFields(c.sourceType), child)

\* C2 witness: a call for a token whose registered override and the
\* element-level transformation both define `quality`.
C2_Witness ==
  \E i \in 1..Len(result.urlCalls) :
    LET c == result.urlCalls[i]
    IN /\ "quality" \in DOMAIN RegisteredOverride(c.sourceType)
       /\ "quality" \in DOMAIN mergedProps.childTransformations
       /\ c.options["quality"] = "auto"

\* C3: for a list of N tokens the returned sources are N descriptors, the
\* i-th built from the i-th token (its url, its media type), the resolver ran
\* N times, and the tag attributes carry no `src` but a passed-through one.
C3_SourcesFollowTheList ==
  (Returned /\ mergedProps.sourceTypes.isArray) =>
    LET list == mergedProps.sourceTypes.list
    IN /\ ~result.sourcesNull
       /\ Len(result.sources) = Len(list)
       /\ result.invocations = Len(list)
       /\ Len(result.urlCalls) = Len(list)
       /\ \A i \in 1..Len(list) :
            /\ result.urlCalls[i].sourceType = list[i]
            /\ result.urlCalls[i].publicId = mergedProps.publicId
            /\ result.sources[i].src =
                 cldUrl(mergedProps.publicId, result.urlCalls[i].options)
            /\ result.sources[i].type = ExpectedMimeType(list[i])
       /\ "src" \in DOMAIN result.tagAttributes =>
            /\ "src" \in DOMAIN mergedProps.nonCloudinaryProps
            /\ result.tagAttributes["src"] = mergedProps.nonCloudinaryProps["src"]

\* C3 witness: a returned result for a two-token list naming one token twice.
C3_Witness ==
  /\ Returned
  /\ mergedProps.sourceTypes.isArray
  /\ Len(mergedProps.sourceTypes.list) = 2
  /\ mergedProps.sourceTypes.list[1] = mergedProps.sourceTypes.list[2]
  /\ Len(result.sources) = 2

\* C4: for a scalar token the resolver runs once, with that token; `src` is
\* the url it returned and sources is null.
C4_ScalarSetsSrc ==
  (Returned /\ ~mergedProps.sourceTypes.isArray) =>
    /\ result.invocations = 1
    /\ Len(result.urlCalls) = 1
    /\ result.urlCalls[1].sourceType = mergedProps.sourceTypes.token
    /\ result.urlCalls[1].publicId = mergedProps.publicId
    /\ "src" \in DOMAIN result.tagAttributes
    /\ result.tagAttributes["src"] =
         cldUrl(mergedProps.publicId, result.urlCalls[1].options)
    /\ result.sourcesNull
    /\ result.sources = <<>>

\* C4 witness: a returned result for the scalar token "ogv".
C4_Witness ==
  /\ Returned
  /\ ~mergedProps.sourceTypes.isArray
  /\ mergedProps.sourceTypes.token = "ogv"
  /\ "src" \in DOMAIN result.tagAttributes

RequestsAFormat ==
  ~mergedProps.sourceTypes.isArray \/ Len(mergedProps.sourceTypes.list) >= 1

NonEmptySources == ~result.sourcesNull /\ Len(result.sources) >= 1

PopulatedSrc ==
  "src" \in DOMAIN result.tagAttributes /\ result.tagAttributes["src"] # ""

C6_PassThroughAlwaysWins ==
  Returned =>
    \A k \in DOMAIN mergedProps.nonCloudinaryProps :
      /\ k \in DOMAIN result.tagAttributes
      /\ result.tagAttributes[k] = mergedProps.nonCloudinaryProps[k]

\* C6 (amended): every pass-through key keeps the caller's value, but `src`
\* in single-format mode, which is the resolved url.
C6_PassThroughWinsButScalarSrc ==
  Returned =>
    /\ \A k \in DOMAIN mergedProps.nonCloudinaryProps :
         (mergedProps.sourceTypes.isArray \/ k # "src") =>
           /\ k \in DOMAIN result.tagAttributes
           /\ result.tagAttributes[k] = mergedProps.nonCloudinaryProps[k]
    /\ ~mergedProps.sourceTypes.isArray =>
         result.tagAttributes["src"] =
           cldUrl(mergedProps.publicId, result.urlCalls[1].options)

\* C6 witness: a pass-through key that a computed attribute converts to.
C6_Witness ==
  /\ Returned
  /\ "crossOrigin" \in DOMAIN mergedProps.nonCloudinaryProps
  /\ "cross_origin" \in DOMAIN mergedProps.videoTagAttributes
  /\ result.tagAttributes["crossOrigin"] = "user-credentials"

\* C7: the media type of the i-th source is "video/ogg" for "ogv" and
\* "video/" followed by the token otherwise; the resolver is given the token
\* itself, and the format it forces is the token.
C7_MediaTypeOfToken ==
  (Returned /\ mergedProps.sourceTypes.isArray) =>
    \A i \in 1..Len(mergedProps.sourceTypes.list) :
      LET t == mergedProps.sourceTypes.list[i]
      IN /\ result.sources[i].type = ExpectedMimeType(t)
         /\ result.sources[i].key = ExpectedMimeType(t)
         /\ result.urlCalls[i].sourceType = t
         /\ ("format" \notin DOMAIN RegisteredOverride(t)
               /\ "format" \notin DOMAIN mergedProps.childTransformations)
              => result.urlCalls[i].options["format"] = t

\* C7 witness: returned sources for a list with "ogv" and the unknown "xyz".
C7_Witness ==
  /\ Returned
  /\ mergedProps.sourceTypes.isArray
  /\ mergedProps.sourceTypes.list = <<"ogv", "xyz">>
  /\ result.sources[1].type = "video/ogg"
  /\ result.sources[2].type = "video/xyz"
  /\ result.urlCalls[1].options["format"] = "ogv"

\* C8: getVideoTagProps throws only when a call of the CDN service (videoTag,
\* url) throws.
C8_OnlyCdnFailuresThrow ==
  /\ result.error \in {"pending", "none", "CdnError"}
  /\ result.error = "CdnError" => mergedProps.cdn # "ok"

\* C9: the player is instantiated once, by componentDidMount, with the
\* sources derived from the props of that moment; no update instantiates or
\* disposes one; it is disposed once, by componentWillUnmount, and never when
\* none was created.
C9_PlayerOncePerLifecycle ==
  /\ videojsCalls <= 1
  /\ disposeCalls <= 1
  /\ phase \in {"constructed", "rendered", "failed"} => videojsCalls = 0
  /\ phase \in {"mounted", "rerendered"} =>
       videojsCalls = 1 /\ player = "player" /\ disposeCalls = 0
  /\ player = "undefined" => disposeCalls = 0
  /\ player = "player" =>
       /\ videojsCalls = 1
       /\ disposeCalls = (IF phase = "unmounted" THEN 1 ELSE 0)
       /\ playerSources.null = ~propsAtMount.sourceTypes.isArray
       /\ Len(playerSources.list) = Len(propsAtMount.sourceTypes.list)
       /\ \A i \in 1..Len(playerSources.list) :
            playerSources.list[i].type =
              ExpectedMimeType(propsAtMount.sourceTypes.list[i])

\* C9 witness: mounted, updated, unmounted.
C9_Witness ==
  /\ phase = "unmounted"
  /\ didUpdateCalls >= 1
  /\ videojsCalls = 1
  /\ disposeCalls = 1

\* C10: every componentDidUpdate() of the mounted component calls load() on
\* the rendered video element.
C10_EveryUpdateReloads == loadCalls = didUpdateCalls

====
